---- MODULE Spec2Model ----
(***************************************************************************)
(* The ErgoSum context repository: the on-disk state kept under .ergosum   *)
(* by RepositoryManager, and the commands of commands/context-repo.ts that *)
(* act on it (init, add, commit, push, fetch, pull, clone).  One CLI       *)
(* invocation is one atomic action: the program is single-threaded and one *)
(* process runs per invocation.  The remote service and the working        *)
(* directory are the environment: what they return is an input.  The user  *)
(* is authenticated throughout (config.isAuthenticated() is true): the     *)
(* credentials live outside the repository.                                *)
(*                                                                         *)
(* Spec runs all seven commands over one working file; SpecLocal runs      *)
(* init, add and commit over two files with changing contents;             *)
(* SpecFetch runs init, add, commit, fetch, pull and clone with writes of   *)
(* fetchFromRemote that can fail.                                          *)
(* SpecStage runs init, add and commit with adds at different times over    *)
(* files that may be unreadable.                                           *)
(* SpecInit runs initRepository one write at a time, with an init that can   *)
(* end midway, and clone.                                                  *)
(* SpecArguments runs add with the forms its arguments can take.           *)
(* SpecListFiles lists the working directories of WorkTrees; SpecSort      *)
(* hands pushCommits the unpushed commits of the stores of SortStores.     *)
(***************************************************************************)
EXTENDS Integers, Sequences, FiniteSets, TLC

(* ------------------------------ bounds --------------------------------- *)

\* how many commits generateCommitId is asked for locally
MaxCommits == 2
\* how many fetches complete (each writes a later last_fetch timestamp)
MaxFetch == 1

\* working-directory files and what a read of one can return
Paths == {"a.md", "b.md"}
Contents == {"x", "yy"}
Unreadable == "<unreadable>"
\* the batches of files one add resolves to
FileBatches ==
  {<<>>, <<"a.md">>, <<"b.md">>, <<"a.md", "b.md">>, <<"b.md", "a.md">>, <<"a.md", "a.md">>}
\* the one file, of one content, the commands of Spec work on
OneFile == {<<"a.md">>}
OneContent == {"x"}
\* what new Date() can read during one add, and the one reading of Spec
Clock == {1, 2}
OneClock == {1}
\* the batches and the reads of the adds that run at different times
StageBatches == {<<"a.md">>, <<"a.md", "b.md">>, <<"b.md", "a.md">>}
StageContents == {"x", Unreadable}

\* the files a working directory can hold when it is listed
WorkFiles ==
  {"README.md", "script.js", ".env", "node_modules/package.js", "debug.log",
   "catalog", "src/app.ts", "src/build/out.js", ".ergosum/HEAD"}
WorkTrees == SUBSET WorkFiles
\* the working directories add is run in with arguments, and the arguments:
\* --all, ., patterns with a *, names of files, of a directory, of nothing
ArgumentTrees == SUBSET {"README.md", ".env", "node_modules/package.js", "debug.log"}
AddArguments ==
  {[all |-> TRUE, patterns |-> <<>>]}
    \cup {[all |-> FALSE, patterns |-> ps] :
            ps \in {<<".">>, <<"*">>, <<"*.md">>, <<"node_modules/*">>, <<"README.md">>,
                    <<".env">>, <<"node_modules/package.js">>, <<"node_modules">>,
                    <<"notes.txt">>, <<"README.md", "debug.log">>}}

RemoteId == "rid"
RemoteUrl == "ergosum://repository/" \o RemoteId
\* JavaScript's undefined / a missing file
Undefined == "<undefined>"

\* the commits a store can hold when its unpushed commits are sorted: a chain
\* of three and a commit whose parent is in no store
SortCommits ==
  {[id |-> "k1", parent_id |-> Undefined, tree_id |-> "sha1:t1",
    files_changed |-> 1, additions |-> 1, deletions |-> 0],
   [id |-> "k2", parent_id |-> "k1", tree_id |-> "sha1:t2",
    files_changed |-> 1, additions |-> 1, deletions |-> 0],
   [id |-> "k3", parent_id |-> "k2", tree_id |-> "sha1:t3",
    files_changed |-> 1, additions |-> 1, deletions |-> 0],
   [id |-> "k4", parent_id |-> "gone", tree_id |-> "sha1:t4",
    files_changed |-> 1, additions |-> 1, deletions |-> 0]}
SortStores == SUBSET SortCommits
SortPushed == {{}, {"k1"}, {"k2"}, {"k1", "k2"}}

(* ------------------------------- state --------------------------------- *)

VARIABLES
  exists,          \* the .ergosum directory exists (isRepository)
  config,          \* config.json
  head,            \* the HEAD file; Undefined while there is none
  refs,            \* refs/heads: branch name -> branch record
  index,           \* the index file: a sequence of IndexEntry
  blobs,           \* objects/blobs: object id -> stored object
  trees,           \* objects/trees: tree id -> tree entries
  commits,         \* objects/commits: commit id -> commit
  pushed_commits,  \* the ids the pushed_commits tracking list holds
  pushed_objects,  \* the ids the pushed_objects tracking list holds
  last_fetch,      \* the last_fetch timestamp; 0 while there is none
  worktree,        \* the paths of the files in the working directory
  skeleton,        \* the directories of the .ergosum skeleton that exist
  running,         \* the initRepository at work and the step it is at
  last             \* the command that ran last and what it reported

vars == <<exists, config, head, refs, index, blobs, trees, commits,
          pushed_commits, pushed_objects, last_fetch, worktree, skeleton, running,
          last>>

repo == <<exists, config, head, refs, index, blobs, trees, commits,
          pushed_commits, pushed_objects, last_fetch, worktree, skeleton, running>>

(* ------------------------------ helpers -------------------------------- *)

\* fs.writeFile of one file in a keyed directory
Put(dir, key, value) == (key :> value) @@ dir

\* fs.readdir: the entries of a directory, in the directory's order
RECURSIVE ReadDir(_)
ReadDir(S) ==
  IF S = {} THEN <<>>
  ELSE LET k == CHOOSE k \in S : TRUE IN <<k>> \o ReadDir(S \ {k})

\* a filter that keeps every entry
StagedOf_all(idx) == idx

\* Array.prototype.filter on the staged flag
RECURSIVE StagedOf(_)
StagedOf(idx) ==
  IF idx = <<>> THEN <<>>
  ELSE (IF Head(idx).staged THEN <<Head(idx)>> ELSE <<>>) \o StagedOf(Tail(idx))

\* Array.prototype.findIndex by path; 0 when there is none
RECURSIVE FindIndexFrom(_, _, _)
FindIndexFrom(idx, p, i) ==
  IF i > Len(idx) THEN 0
  ELSE IF idx[i].path = p THEN i ELSE FindIndexFrom(idx, p, i + 1)

findIndex(idx, p) == FindIndexFrom(idx, p, 1)

RECURSIVE SumSizes(_)
SumSizes(entries) ==
  IF entries = <<>> THEN 0 ELSE Head(entries).size + SumSizes(Tail(entries))

\* what a command reports
Report(op, err) ==
  [op |-> op, err |-> err, updated |-> FALSE, calls |-> <<>>, branches |-> {},
   commit_id |-> Undefined, commits_pushed |-> 0, objects_pushed |-> 0,
   retry |-> FALSE, since |-> Undefined,
   remote |-> [default_branch |-> Undefined, commits |-> {}, objects |-> {}],
   listed |-> <<>>, given |-> <<>>, batch |-> <<>>,
   files |-> <<>>, contents |-> <<>>, added |-> <<>>]

\* the report is of a push whose pushCommits call failed
failedAtCommits(report) ==
  /\ report.op = "push"
  /\ \E i \in DOMAIN report.calls :
       report.calls[i].api = "pushCommits" /\ ~report.calls[i].ok

\* the ids one report's calls of an api sent
idsSent(report, api) ==
  UNION {report.calls[i].ids : i \in {j \in DOMAIN report.calls : report.calls[j].api = api}}

(* ------------------------- RepositoryManager --------------------------- *)

\* a hash that gives every content the same id
hashContent_const(content) == "sha1:"

\* sha1 of the content, in hex: one id per content
hashContent(content) == "sha1:" \o content

\* a detection that never sees the metadata directory
isRepository_never == FALSE

isRepository == exists

getHead == IF head = Undefined THEN "main" ELSE head

getBranchAbsent(name) == name \notin DOMAIN refs

\* a lookup that finds a remote id in every config
getRemoteRepositoryId_any == RemoteId

getRemoteRepositoryId ==
  IF config.remote_url = RemoteUrl THEN RemoteId ELSE Undefined

\* a read whose id takes the time of the read in
readFile_stamped(content, now) ==
  [id |-> hashContent(content) \o "@" \o ToString(now), content |-> content,
   size |-> Len(content), created_at |-> now]

\* the object readFile builds from a file's content, read at the time now
readFile(content, now) ==
  [id |-> hashContent(content), content |-> content, size |-> Len(content),
   created_at |-> now]

\* saveObject writes everything but the id under the id's name
saveObject(store, obj) ==
  Put(store, obj.id, [content |-> obj.content, size |-> obj.size,
                      created_at |-> obj.created_at])

\* the ignore_patterns of getDefaultSettings
getDefaultSettings ==
  <<".git", ".ergosum", "node_modules", "*.log", ".env", ".env.local", "dist",
    "build", ".DS_Store">>

\* String.prototype.includes
includes(str, part) ==
  \E i \in 1..(Len(str) - Len(part) + 1) : SubSeq(str, i, i + Len(part) - 1) = part

\* pattern.replace(/\*/g, '.*')
RECURSIVE replaceStars(_)
replaceStars(pattern) ==
  IF pattern = "" THEN ""
  ELSE (IF SubSeq(pattern, 1, 1) = "*" THEN ".*" ELSE SubSeq(pattern, 1, 1))
         \o replaceStars(SubSeq(pattern, 2, Len(pattern)))

\* one regular-expression atom against one character: . is any character
atomMatches(atom, char) == atom = "." \/ atom = char

\* the regular expression from its i-th character on matches str from its j-th
\* character on; an atom followed by * takes any number of characters
RECURSIVE matchHere(_, _, _, _)
matchHere(regex, i, str, j) ==
  IF i > Len(regex) THEN TRUE
  ELSE IF i < Len(regex) /\ SubSeq(regex, i + 1, i + 1) = "*"
  THEN \E k \in j..(Len(str) + 1) :
         /\ \A m \in j..(k - 1) : atomMatches(SubSeq(regex, i, i), SubSeq(str, m, m))
         /\ matchHere(regex, i + 2, str, k)
  ELSE /\ j <= Len(str)
       /\ atomMatches(SubSeq(regex, i, i), SubSeq(str, j, j))
       /\ matchHere(regex, i + 1, str, j + 1)

\* new RegExp(source).test(str): a match that may start anywhere
regexTest(source, str) == \E j \in 1..(Len(str) + 1) : matchHere(source, 1, str, j)

\* an ignore test that lets every path through
shouldIgnore_never(filePath) == FALSE

\* shouldIgnore: some pattern of the default settings matches the path
shouldIgnore(filePath) ==
  LET patterns == getDefaultSettings
  IN  \E n \in DOMAIN patterns :
        IF includes(patterns[n], "*")
        THEN regexTest(replaceStars(patterns[n]), filePath)
        ELSE includes(filePath, patterns[n])

\* path.join of a relative directory and an entry name
pathJoin(relativePath, name) ==
  IF relativePath = "" THEN name ELSE relativePath \o "/" \o name

\* where the first / of a path is; 0 when it has none
firstSlash(str) ==
  IF includes(str, "/")
  THEN CHOOSE i \in 1..Len(str) :
         /\ SubSeq(str, i, i) = "/"
         /\ \A k \in 1..(i - 1) : SubSeq(str, k, k) # "/"
  ELSE 0

\* fs.readdir with file types: the entries of the directory relativePath of a
\* working directory that holds the files tree
readdir(tree, relativePath) ==
  LET inside == {f \in tree :
                   \/ relativePath = ""
                   \/ /\ Len(f) > Len(relativePath) + 1
                      /\ SubSeq(f, 1, Len(relativePath) + 1) = relativePath \o "/"}
      below(f) == IF relativePath = "" THEN f
                  ELSE SubSeq(f, Len(relativePath) + 2, Len(f))
      entry(f) == LET slash == firstSlash(below(f))
                  IN  [name |-> IF slash = 0 THEN below(f)
                                ELSE SubSeq(below(f), 1, slash - 1),
                       isDirectory |-> slash # 0]
  IN  ReadDir({entry(f) : f \in inside})

\* the traverse of listFiles over the entries of one directory
RECURSIVE traverse(_, _, _, _)
traverse(tree, relativePath, entries, files) ==
  IF entries = <<>> THEN files
  ELSE LET entry == Head(entries)
           entryPath == pathJoin(relativePath, entry.name)
       IN  IF shouldIgnore(entryPath)
           THEN traverse(tree, relativePath, Tail(entries), files)
           ELSE IF entry.isDirectory
           THEN traverse(tree, relativePath, Tail(entries),
                         traverse(tree, entryPath, readdir(tree, entryPath), files))
           ELSE traverse(tree, relativePath, Tail(entries), Append(files, entryPath))

listFiles(tree) == traverse(tree, "", readdir(tree, ""), <<>>)

\* the directories createDirectoryStructure makes, in the order it makes them
SkeletonDirs ==
  <<".ergosum", ".ergosum/objects", ".ergosum/objects/commits", ".ergosum/objects/trees",
    ".ergosum/objects/blobs", ".ergosum/refs", ".ergosum/refs/heads", ".ergosum/refs/tags",
    ".ergosum/hooks">>

\* the skeleton once createDirectoryStructure has returned
createDirectoryStructure == {SkeletonDirs[n] : n \in DOMAIN SkeletonDirs}

\* a default branch created under another name
mainBranch_master == [id |-> "local", name |-> "master", commit_id |-> ""]

\* the branch initRepository creates
mainBranch == [id |-> "local", name |-> "main", commit_id |-> ""]

\* the config initRepository writes
initConfig(remote) ==
  [remote_url |-> remote, default_branch |-> "main",
   ignore_patterns |-> getDefaultSettings]

\* saveBranch writes the record under its name
saveBranch(heads, branch) ==
  Put(heads, branch.name, [id |-> branch.id, name |-> branch.name, commit_id |-> branch.commit_id])

\* a link that leaves the config as it is
setRemoteRepository_keep(cfg, remoteRepoId) == cfg

\* setRemoteRepository rewrites the config's remote_url
setRemoteRepository(cfg, remoteRepoId) ==
  [cfg EXCEPT !.remote_url = "ergosum://repository/" \o remoteRepoId]

(* ------------------------------- Init ---------------------------------- *)

\* no initRepository is at work
NoRun == [at |-> "none", remote |-> Undefined]

NoConfig ==
  [remote_url |-> Undefined, default_branch |-> Undefined, ignore_patterns |-> Undefined]

Init ==
  /\ exists = FALSE
  /\ config = NoConfig
  /\ head = Undefined
  /\ refs = <<>>
  /\ index = <<>>
  /\ blobs = <<>>
  /\ trees = <<>>
  /\ commits = <<>>
  /\ pushed_commits = {}
  /\ pushed_objects = {}
  /\ last_fetch = 0
  /\ worktree = Paths
  /\ skeleton = {}
  /\ running = NoRun
  /\ last = Report("none", "")

(* ------------------------------- init ---------------------------------- *)

\* initRepo over RepositoryManager.initRepository
InitRepo ==
  IF isRepository THEN
    /\ last' = Report("init", "AlreadyExists")
    /\ UNCHANGED repo
  ELSE \E remote \in {Undefined, RemoteUrl} :
      /\ exists' = TRUE
      /\ config' = initConfig(remote)
      /\ refs' = saveBranch(refs, mainBranch)
      /\ head' = "main"
      /\ index' = <<>>
      /\ last' = Report("init", "")
      /\ skeleton' = createDirectoryStructure
      /\ UNCHANGED <<blobs, trees, commits, pushed_commits, pushed_objects, last_fetch,
                     worktree, running>>

(* --------------------------- init, step by step ------------------------ *)

\* initRepository enters: the isRepository test, then the options are taken
InitBegin ==
  /\ running = NoRun
  /\ IF isRepository THEN
       /\ last' = Report("init", "AlreadyExists")
       /\ UNCHANGED repo
     ELSE \E remote \in {Undefined, RemoteUrl} :
       /\ running' = [at |-> "mkdir", remote |-> remote]
       /\ last' = Report("init", "Unfinished")
       /\ UNCHANGED <<exists, config, head, refs, index, blobs, trees, commits,
                      pushed_commits, pushed_objects, last_fetch, worktree, skeleton>>

\* one turn of the loop of createDirectoryStructure: fs.mkdir of the next
\* directory of the list; the first is .ergosum itself
InitMkdir ==
  /\ running.at = "mkdir"
  /\ LET dir == SkeletonDirs[Cardinality(skeleton) + 1]
     IN  /\ skeleton' = skeleton \cup {dir}
         /\ exists' = (SkeletonDirs[1] \in skeleton')
         /\ running' = IF skeleton' = createDirectoryStructure
                       THEN [running EXCEPT !.at = "saveConfig"] ELSE running
  /\ UNCHANGED <<config, head, refs, index, blobs, trees, commits,
                 pushed_commits, pushed_objects, last_fetch, worktree, last>>

InitSaveConfig ==
  /\ running.at = "saveConfig"
  /\ config' = initConfig(running.remote)
  /\ running' = [running EXCEPT !.at = "saveBranch"]
  /\ UNCHANGED <<exists, head, refs, index, blobs, trees, commits,
                 pushed_commits, pushed_objects, last_fetch, worktree, skeleton, last>>

InitSaveBranch ==
  /\ running.at = "saveBranch"
  /\ refs' = saveBranch(refs, mainBranch)
  /\ running' = [running EXCEPT !.at = "setHead"]
  /\ UNCHANGED <<exists, config, head, index, blobs, trees, commits,
                 pushed_commits, pushed_objects, last_fetch, worktree, skeleton, last>>

InitSetHead ==
  /\ running.at = "setHead"
  /\ head' = "main"
  /\ running' = [running EXCEPT !.at = "saveIndex"]
  /\ UNCHANGED <<exists, config, refs, index, blobs, trees, commits,
                 pushed_commits, pushed_objects, last_fetch, worktree, skeleton, last>>

\* the last write of initRepository, after which initRepo reports
InitSaveIndex ==
  /\ running.at = "saveIndex"
  /\ index' = <<>>
  /\ running' = NoRun
  /\ last' = Report("init", "")
  /\ UNCHANGED <<exists, config, head, refs, blobs, trees, commits,
                 pushed_commits, pushed_objects, last_fetch, worktree, skeleton>>

\* the init ends where it is: the process is killed, or the step it is at
\* throws; nothing removes what was written
InitInterrupt ==
  /\ running # NoRun
  /\ running' = NoRun
  /\ UNCHANGED <<exists, config, head, refs, index, blobs, trees, commits,
                 pushed_commits, pushed_objects, last_fetch, worktree, skeleton, last>>

(* -------------------------------- add ---------------------------------- *)

\* the index entry addFiles builds for a file it has read
indexEntry(filePath, contentObj, now) ==
  [path |-> filePath, object_id |-> contentObj.id, mode |-> "100644",
   size |-> contentObj.size, modified_time |-> now, staged |-> TRUE]

\* an add that pushes every entry it builds
upsert_push(newIndex, entry) == Append(newIndex, entry)

\* replace the entry of the same path, or push
upsert(newIndex, entry) ==
  LET existingIndex == findIndex(newIndex, entry.path)
  IN  IF existingIndex # 0 THEN [newIndex EXCEPT ![existingIndex] = entry]
      ELSE Append(newIndex, entry)

\* a read that never throws
readFails_never(content) == FALSE

\* await repoManager.readFile(filePath) throws, into the catch of the loop
readFails(content) == content = Unreadable

\* the loop of addFiles over the resolved files; a file whose read throws is
\* skipped: it gets no object, no entry and no place in addedFiles
RECURSIVE addLoop(_, _, _, _)
addLoop(files, read, now, done) ==
  IF files = <<>> THEN done
  ELSE LET filePath == Head(files)
       IN  IF readFails(read[filePath])
           THEN addLoop(Tail(files), read, now, done)
           ELSE LET contentObj == readFile(read[filePath], now)
                IN  addLoop(Tail(files), read, now,
                            [index |-> upsert(done.index, indexEntry(filePath, contentObj, now)),
                             blobs |-> saveObject(done.blobs, contentObj),
                             addedFiles |-> Append(done.addedFiles, filePath)])

\* the body of addFiles once its arguments are resolved to files: the loop,
\* then saveIndex; read is what the read of each file returns, now the clock
stage(files, read, now) ==
  LET done == addLoop(files, read, now,
                      [index |-> index, blobs |-> blobs, addedFiles |-> <<>>])
  IN  /\ index' = done.index
      /\ blobs' = done.blobs
      /\ last' = [Report("add", "") EXCEPT
                    !.files = files,
                    !.contents = [i \in DOMAIN files |-> read[files[i]]],
                    !.added = done.addedFiles]
      /\ UNCHANGED <<exists, config, head, refs, trees, commits,
                     pushed_commits, pushed_objects, last_fetch, worktree,
                     skeleton, running>>

\* addFiles, the add command, over the batches, file contents and clock
\* readings given
AddFilesFrom(batches, contents, clock) ==
  IF ~isRepository THEN
    /\ last' = Report("add", "NotARepository")
    /\ UNCHANGED repo
  ELSE \E files \in batches, now \in clock :
         \E read \in [{files[i] : i \in DOMAIN files} -> contents] :
           stage(files, read, now)

AddFiles == AddFilesFrom(FileBatches, Contents, OneClock)

\* allFiles.filter(file => regex.test(file))
RECURSIVE filterTest(_, _)
filterTest(source, allFiles) ==
  IF allFiles = <<>> THEN <<>>
  ELSE (IF regexTest(source, Head(allFiles)) THEN <<Head(allFiles)>> ELSE <<>>)
         \o filterTest(source, Tail(allFiles))

\* fs.access of a path of the working directory: a file or a directory is there
access(tree, name) ==
  \/ name \in tree
  \/ \E f \in tree : Len(f) > Len(name) + 1 /\ SubSeq(f, 1, Len(name) + 1) = name \o "/"

\* getFilesFromPattern: the listing for ., the listing filtered for a pattern
\* with a *, and any other argument as it is when something of that name exists
getFilesFromPattern(tree, pattern) ==
  IF pattern = "." THEN listFiles(tree)
  ELSE IF includes(pattern, "*") THEN filterTest(replaceStars(pattern), listFiles(tree))
  ELSE IF access(tree, pattern) THEN <<pattern>>
  ELSE <<>>

\* for (const pattern of patterns) ... for (const filePath of files)
RECURSIVE filesOfPatterns(_, _)
filesOfPatterns(tree, patterns) ==
  IF patterns = <<>> THEN <<>>
  ELSE getFilesFromPattern(tree, Head(patterns)) \o filesOfPatterns(tree, Tail(patterns))

\* the files addFiles goes through for its arguments
resolveFiles(tree, arguments) ==
  IF arguments.all \/ \E n \in DOMAIN arguments.patterns : arguments.patterns[n] = "."
  THEN listFiles(tree)
  ELSE filesOfPatterns(tree, arguments.patterns)

\* fs.readFile of a path of the working directory: a file is read, anything
\* else (a directory) throws
readOf(tree, files, content) ==
  [f \in {files[i] : i \in DOMAIN files} |-> IF f \in tree THEN content ELSE Unreadable]

\* addFiles, the add command, with its arguments
AddArgumentsFrom(arguments, contents, clock) ==
  IF ~isRepository THEN
    /\ last' = Report("add", "NotARepository")
    /\ UNCHANGED repo
  ELSE \E argument \in arguments, content \in contents, now \in clock :
         \E files \in {resolveFiles(worktree, argument)} :
           stage(files, readOf(worktree, files, content), now)

AddWithArguments == AddArgumentsFrom(AddArguments, OneContent, OneClock)

\* the add command run at different times on files that may not be readable
AddFilesLater == AddFilesFrom(StageBatches, StageContents, Clock)

AddOneFile == AddFilesFrom(OneFile, OneContent, OneClock)

(* ------------------------------- commit -------------------------------- *)

RECURSIVE joinLines(_)
joinLines(lines) ==
  IF lines = <<>> THEN ""
  ELSE IF Len(lines) = 1 THEN lines[1]
  ELSE lines[1] \o "\n" \o joinLines(Tail(lines))

generateTreeId(entries) ==
  "sha1:" \o joinLines([i \in DOMAIN entries |->
      entries[i].mode \o " " \o entries[i].name \o " " \o entries[i].object_id])

createTreeFromIndex(entries) ==
  LET treeEntries == [i \in DOMAIN entries |->
        [mode |-> entries[i].mode, name |-> entries[i].path,
         object_id |-> entries[i].object_id, type |-> "file"]]
  IN  [id |-> generateTreeId(treeEntries), entries |-> treeEntries]

saveTree(store, tree) == Put(store, tree.id, tree.entries)

saveCommit(store, commit) == Put(store, commit.id, commit)

\* generateCommitId: twenty random bytes, an id no stored commit has
CommitIds == {"c" \o ToString(i) : i \in 1..MaxCommits}

generateCommitId ==
  "c" \o ToString(CHOOSE i \in 1..MaxCommits :
      /\ ("c" \o ToString(i)) \notin DOMAIN commits
      /\ \A j \in 1..(i - 1) : ("c" \o ToString(j)) \in DOMAIN commits)

\* a commit that empties the index instead of clearing the flags
unstage_clear(idx) == <<>>

\* index.map(entry => ({...entry, staged: false}))
unstage(idx) == [i \in DOMAIN idx |-> [idx[i] EXCEPT !.staged = FALSE]]

\* the parent commitChanges gives the new commit
parentOf(branch) == IF branch.commit_id = "" THEN Undefined ELSE branch.commit_id

\* an emptiness test that never fires
nothingStaged_never(stagedFiles) == FALSE

\* stagedFiles.length === 0
nothingStaged(stagedFiles) == Len(stagedFiles) = 0

\* commitChanges, the commit command
CommitChanges ==
  IF ~isRepository THEN
    /\ last' = Report("commit", "NotARepository")
    /\ UNCHANGED repo
  ELSE
    LET stagedFiles == StagedOf(index) IN
    IF nothingStaged(stagedFiles) THEN
      /\ last' = Report("commit", "NothingStaged")
      /\ UNCHANGED repo
    ELSE
      /\ CommitIds \ DOMAIN commits # {}
      /\ LET tree == createTreeFromIndex(stagedFiles)
             currentBranch == getHead
             hasBranch == ~getBranchAbsent(currentBranch)
             parentId == IF hasBranch THEN parentOf(refs[currentBranch]) ELSE Undefined
             commit == [id |-> generateCommitId, parent_id |-> parentId,
                        tree_id |-> tree.id,
                        files_changed |-> Len(stagedFiles),
                        additions |-> SumSizes(stagedFiles), deletions |-> 0]
         IN  /\ trees' = saveTree(trees, tree)
             /\ commits' = saveCommit(commits, commit)
             /\ refs' = IF hasBranch
                        THEN saveBranch(refs, [refs[currentBranch] EXCEPT !.commit_id = commit.id])
                        ELSE refs
             /\ index' = unstage(index)
             /\ last' = [Report("commit", "") EXCEPT !.commit_id = commit.id]
             /\ UNCHANGED <<exists, config, head, blobs, pushed_commits,
                            pushed_objects, last_fetch, worktree, skeleton, running>>

(* ------------------------------ remote --------------------------------- *)

\* what the remote service can hold and return: two commits of a history the
\* local repository did not create, one object, and its branch records
RemoteCommits ==
  {[id |-> "r1", parent_id |-> Undefined, tree_id |-> "sha1:remote1",
    files_changed |-> 1, additions |-> 1, deletions |-> 0],
   [id |-> "r2", parent_id |-> "r1", tree_id |-> "sha1:remote2",
    files_changed |-> 1, additions |-> 1, deletions |-> 0]}

RemoteObjects == {[id |-> hashContent("z"), content |-> "z", size |-> 1, created_at |-> 0]}

RemoteBranches ==
  {[id |-> "remote", name |-> "main", commit_id |-> c] : c \in {"", "c1", "r2"}}
    \cup {[id |-> "remote", name |-> "dev", commit_id |-> "r1"]}

\* the commit lists fetchCommits can return
CommitLists == {{}, {c \in RemoteCommits : c.id = "r2"}, RemoteCommits}

\* the branch lists fetchBranches can return: at most one record per name
BranchLists ==
  {B \in SUBSET RemoteBranches : \A x, y \in B : x.name = y.name => x = y}

\* the local write of fetchFromRemote that throws, if any
SaveFailures == {"saveCommit", "saveObject", "saveBranch"}

\* the answers of the three fetch calls when all three succeed (the remote's
\* object comes with its commits)
FetchAnswers ==
  {[ok |-> TRUE, fails |-> "", commits |-> cl,
    objects |-> IF cl = {} THEN {} ELSE RemoteObjects,
    branches |-> bl] : cl \in CommitLists, bl \in BranchLists}

\* the answer that returns everything the remote holds
FullAnswer ==
  [ok |-> TRUE, fails |-> "", commits |-> RemoteCommits, objects |-> RemoteObjects,
   branches |-> {b \in RemoteBranches : b.commit_id \in {"r1", "r2"}}]

\* the outcomes of one fetchFromRemote whose writes succeed: the three calls
\* awaited together succeed, or one of them fails and the await throws
FetchResponses ==
  FetchAnswers
    \cup {[ok |-> FALSE, fails |-> "", commits |-> {}, objects |-> {}, branches |-> {}]}

\* the outcomes of one fetchFromRemote when a write can throw as well (with the
\* full answer, so that every loop has something to write)
FetchResponsesAndWrites ==
  FetchResponses \cup {[FullAnswer EXCEPT !.fails = w] : w \in SaveFailures}

\* one call of the remote API: what was sent and whether it returned
Call(api, ids, ok) == [api |-> api, ids |-> ids, ok |-> ok]

(* -------------------------------- push --------------------------------- *)

\* a delta that leaves out the commits the repository did not create
getUnpushedCommits_local ==
  {id \in DOMAIN commits \cap CommitIds : id \notin pushed_commits}

\* the ids of the stored commits that pushed_commits does not list
getUnpushedCommits == {id \in DOMAIN commits : id \notin pushed_commits}

\* the ids of the stored objects that pushed_objects does not list
getUnpushedObjects == {id \in DOMAIN blobs : id \notin pushed_objects}

\* a push that forgets to record the commits it sent
markCommitsPushed_forget(existingPushed, commitIds) == existingPushed

markCommitsPushed(existingPushed, commitIds) == existingPushed \cup commitIds

\* a push that forgets to record the objects it sent
markObjectsPushed_forget(existingPushed, objectIds) == existingPushed

markObjectsPushed(existingPushed, objectIds) == existingPushed \cup objectIds

\* the report of a push; retry tells that it comes right after a push that
\* failed at pushCommits
PushReport(err) == [Report("push", err) EXCEPT !.retry = failedAtCommits(last)]

\* the remote call that fails in one push, if any
PushOutcomes == {"ok", "createRepository", "pushObjects", "pushCommits"}

\* a pushObjects whose failure is not awaited
objectsFailed_swallowed(sendObjects, fails) == FALSE

\* await pushObjects throws: the push ends there
objectsFailed(sendObjects, fails) == sendObjects /\ fails = "pushObjects"

\* await pushCommits throws
commitsFailed(sendCommits, fails) == sendCommits /\ fails = "pushCommits"

\* the orders fs.readdir can give the entries of a directory in
Orders(S) ==
  {order \in [1..Cardinality(S) -> S] :
     \A i, j \in 1..Cardinality(S) : order[i] = order[j] => i = j}

\* a sort that sends the commits in the order it was given them
sortCommitsByDependencies_asGiven(cs) == cs

\* visit of sortCommitsByDependencies: the parent first when the batch has it
RECURSIVE visit(_, _, _)
visit(commitMap, walk, commitId) ==
  IF commitId \in walk.visited THEN walk
  ELSE LET marked == [walk EXCEPT !.visited = @ \cup {commitId}]
       IN  IF commitId \notin DOMAIN commitMap THEN marked
           ELSE LET commit == commitMap[commitId]
                    above == IF /\ commit.parent_id \notin {Undefined, ""}
                                /\ commit.parent_id \in DOMAIN commitMap
                             THEN visit(commitMap, marked, commit.parent_id)
                             ELSE marked
                IN  [above EXCEPT !.sorted = Append(@, commit)]

\* for (const commit of commits) visit(commit.id)
RECURSIVE visitAll(_, _, _)
visitAll(commitMap, walk, cs) ==
  IF cs = <<>> THEN walk
  ELSE visitAll(commitMap, visit(commitMap, walk, Head(cs).id), Tail(cs))

\* sortCommitsByDependencies of ErgoSumAPIClient
sortCommitsByDependencies(cs) ==
  LET commitMap == [id \in {cs[i].id : i \in DOMAIN cs} |->
                      cs[CHOOSE i \in DOMAIN cs :
                           cs[i].id = id /\ \A j \in DOMAIN cs : cs[j].id = id => j <= i]]
  IN  visitAll(commitMap, [visited |-> {}, sorted |-> <<>>], cs).sorted

\* pushRepository, the push command
PushRepository ==
  IF ~isRepository THEN
    /\ last' = PushReport("NotARepository")
    /\ UNCHANGED repo
  ELSE \E fails \in PushOutcomes :
    IF getRemoteRepositoryId = Undefined /\ fails = "createRepository" THEN
      /\ last' = [PushReport("RemoteOperationFailed") EXCEPT
                    !.calls = <<Call("createRepository", {}, FALSE)>>]
      /\ UNCHANGED repo
    ELSE
      LET created == IF getRemoteRepositoryId = Undefined
                     THEN <<Call("createRepository", {}, TRUE)>> ELSE <<>>
          unpushedCommits == getUnpushedCommits
          unpushedObjects == getUnpushedObjects
          sendObjects == Cardinality(unpushedObjects) > 0
          sendCommits == Cardinality(unpushedCommits) > 0
          objectsCall == IF sendObjects
                         THEN <<Call("pushObjects", unpushedObjects, fails # "pushObjects")>>
                         ELSE <<>>
          commitsCall == IF sendCommits
                         THEN <<Call("pushCommits", unpushedCommits, fails # "pushCommits")>>
                         ELSE <<>>
          objectsMarked == IF sendObjects
                           THEN markObjectsPushed(pushed_objects, unpushedObjects)
                           ELSE pushed_objects
          commitsMarked == IF sendCommits
                           THEN markCommitsPushed(pushed_commits, unpushedCommits)
                           ELSE pushed_commits
      IN
      /\ config' = IF getRemoteRepositoryId = Undefined
                   THEN setRemoteRepository(config, RemoteId) ELSE config
      /\ IF ~sendObjects /\ ~sendCommits THEN
           /\ last' = [PushReport("") EXCEPT !.calls = created]
           /\ UNCHANGED <<pushed_commits, pushed_objects>>
         ELSE IF objectsFailed(sendObjects, fails) THEN
           /\ last' = [PushReport("RemoteOperationFailed") EXCEPT
                         !.calls = created \o objectsCall]
           /\ UNCHANGED <<pushed_commits, pushed_objects>>
         ELSE IF commitsFailed(sendCommits, fails) THEN
           /\ pushed_objects' = objectsMarked
           /\ last' = [PushReport("RemoteOperationFailed") EXCEPT
                         !.calls = created \o objectsCall \o commitsCall]
           /\ UNCHANGED pushed_commits
         ELSE
           /\ pushed_objects' = objectsMarked
           /\ pushed_commits' = commitsMarked
           /\ last' = [PushReport("") EXCEPT
                         !.calls = created \o objectsCall \o commitsCall,
                         !.commits_pushed = Cardinality(unpushedCommits),
                         !.objects_pushed = Cardinality(unpushedObjects)]
      /\ UNCHANGED <<exists, head, refs, index, blobs, trees, commits, last_fetch,
                     worktree, skeleton, running>>

(* ----------------------------- fetch, pull ----------------------------- *)

\* for (const x of xs) await save(x), over one store
RECURSIVE saveAll(_, _, _)
saveAll(save(_, _), store, xs) ==
  IF xs = <<>> THEN store ELSE saveAll(save, save(store, Head(xs)), Tail(xs))

fetchCalls(ok) ==
  <<Call("fetchCommits", {}, ok), Call("fetchObjects", {}, ok), Call("fetchBranches", {}, ok)>>

\* the three stores after fetchFromRemote has saved what the calls returned
fetchedCommits(store, resp) == saveAll(saveCommit, store, ReadDir(resp.commits))

fetchedBlobs(store, resp) == saveAll(saveObject, store, ReadDir(resp.objects))

\* a fetch that keeps the local record of a branch the repository has already
fetchedRefs_keepLocal(heads, resp) ==
  saveAll(saveBranch, heads, ReadDir({b \in resp.branches : b.name \notin DOMAIN heads}))

fetchedRefs(heads, resp) == saveAll(saveBranch, heads, ReadDir(resp.branches))

\* the error fetchFromRemote ends with on a linked repository, "" when it returns
fetchError(resp) ==
  IF ~resp.ok THEN "RemoteOperationFailed"
  ELSE IF resp.fails # "" THEN "WriteFailed"
  ELSE ""

\* a fetch that stamps last_fetch whatever became of the writes
stampLastFetch_early(stamp, resp) == IF resp.ok THEN stamp + 1 ELSE stamp

\* the last step of fetchFromRemote: the last_fetch file, written once every
\* call and every write before it has returned
stampLastFetch(stamp, resp) == IF fetchError(resp) = "" THEN stamp + 1 ELSE stamp

\* fetchFromRemote on a linked repository: the stores and the last_fetch stamp
\* it leaves.  The three calls are awaited together, then the commits, the
\* objects and the branches are written in that order; a write that throws
\* leaves what was written before it.
fetchFromRemote(stores, resp) ==
  LET reached(write) ==
        /\ resp.ok
        /\ \/ resp.fails = ""
           \/ write = "saveCommit" /\ resp.fails \in {"saveObject", "saveBranch"}
           \/ write = "saveObject" /\ resp.fails = "saveBranch"
  IN  [commits |-> IF reached("saveCommit")
                   THEN fetchedCommits(stores.commits, resp) ELSE stores.commits,
       blobs |-> IF reached("saveObject")
                 THEN fetchedBlobs(stores.blobs, resp) ELSE stores.blobs,
       refs |-> IF reached("saveBranch")
                THEN fetchedRefs(stores.refs, resp) ELSE stores.refs,
       last_fetch |-> stampLastFetch(stores.last_fetch, resp)]

\* the since bound fetchFromRemote reads from the last_fetch file and passes to
\* fetchCommits and fetchObjects; undefined while there is no file
sinceBound(stamp) == IF stamp = 0 THEN Undefined ELSE ToString(stamp)

\* the stores fetchFromRemote reads and writes
Stores == [commits |-> commits, blobs |-> blobs, refs |-> refs, last_fetch |-> last_fetch]

\* fetchRepository, the fetch command, over RepositoryManager.fetchFromRemote,
\* with the outcomes given
FetchRepositoryFrom(responses) ==
  IF ~isRepository THEN
    /\ last' = Report("fetch", "NotARepository")
    /\ UNCHANGED repo
  ELSE IF getRemoteRepositoryId = Undefined THEN
    /\ last' = Report("fetch", "NotLinked")
    /\ UNCHANGED repo
  ELSE \E resp \in responses :
    /\ stampLastFetch(last_fetch, resp) <= MaxFetch
    /\ \E fetched \in {fetchFromRemote(Stores, resp)} :
          /\ commits' = fetched.commits
          /\ blobs' = fetched.blobs
          /\ refs' = fetched.refs
          /\ last_fetch' = fetched.last_fetch
          /\ last' = [Report("fetch", fetchError(resp)) EXCEPT
                        !.calls = fetchCalls(resp.ok),
                        !.since = sinceBound(last_fetch),
                        !.branches = IF fetchError(resp) = "" THEN resp.branches ELSE {}]
          /\ UNCHANGED <<exists, config, head, index, trees, pushed_commits, pushed_objects,
                         worktree, skeleton, running>>

\* fetchResult.branches.find(b => b.name === currentBranch); Undefined fields when none
findRemoteBranch(resp, currentBranch) ==
  IF \E b \in resp.branches : b.name = currentBranch
  THEN CHOOSE b \in resp.branches : b.name = currentBranch
  ELSE [id |-> Undefined, name |-> Undefined, commit_id |-> Undefined]

\* a pull that moves the branch without comparing the commit ids
pullUpdates_always(branch, remoteBranch) ==
  /\ remoteBranch.name # Undefined
  /\ remoteBranch.commit_id # ""

\* a pull that only fast-forwards a branch with no commit
pullUpdates_fromEmpty(branch, remoteBranch) ==
  /\ remoteBranch.name # Undefined
  /\ remoteBranch.commit_id # ""
  /\ branch.commit_id # remoteBranch.commit_id
  /\ branch.commit_id = ""

\* whether pullFromRemote goes on to move the branch it read before the fetch
pullUpdates(branch, remoteBranch) ==
  /\ remoteBranch.name # Undefined
  /\ remoteBranch.commit_id # ""
  /\ branch.commit_id # remoteBranch.commit_id

\* pullRepository, the pull command, over RepositoryManager.pullFromRemote,
\* with the outcomes given
PullRepositoryFrom(responses) ==
  IF ~isRepository THEN
    /\ last' = Report("pull", "NotARepository")
    /\ UNCHANGED repo
  ELSE IF getBranchAbsent(getHead) THEN
    /\ last' = Report("pull", "BranchNotFound")
    /\ UNCHANGED repo
  ELSE IF getRemoteRepositoryId = Undefined THEN
    /\ last' = Report("pull", "NotLinked")
    /\ UNCHANGED repo
  ELSE \E resp \in responses :
    /\ stampLastFetch(last_fetch, resp) <= MaxFetch
    /\ \E fetched \in {fetchFromRemote(Stores, resp)} :
          LET currentBranch == getHead
              branch == refs[currentBranch]
              remoteBranch == findRemoteBranch(resp, currentBranch)
              updated == fetchError(resp) = "" /\ pullUpdates(branch, remoteBranch)
          IN  /\ commits' = fetched.commits
              /\ blobs' = fetched.blobs
              /\ refs' = IF updated
                         THEN saveBranch(fetched.refs,
                                         [branch EXCEPT !.commit_id = remoteBranch.commit_id])
                         ELSE fetched.refs
              /\ last_fetch' = fetched.last_fetch
              /\ last' = [Report("pull", fetchError(resp)) EXCEPT
                            !.calls = fetchCalls(resp.ok),
                            !.since = sinceBound(last_fetch),
                            !.branches = IF fetchError(resp) = "" THEN resp.branches ELSE {},
                            !.updated = updated]
              /\ UNCHANGED <<exists, config, head, index, trees, pushed_commits,
                             pushed_objects, worktree, skeleton, running>>

(* -------------------------------- clone -------------------------------- *)

\* the default_branch of the repository record getRepository returns
DefaultBranches == {"main", "dev", Undefined}

\* a clone that sets HEAD before it fetches
cloneHead_early(default_branch, err) ==
  IF default_branch # Undefined THEN default_branch ELSE "main"

\* HEAD after cloneFromRemote: the remote's default_branch, set once
\* fetchFromRemote has returned, else the main of initRepository
cloneHead(default_branch, err) ==
  IF err = "" /\ default_branch # Undefined THEN default_branch ELSE "main"

\* cloneRepository, the clone command, over RepositoryManager.cloneFromRemote,
\* with the outcomes given
CloneRepositoryFrom(responses) ==
  IF isRepository THEN
    /\ last' = Report("clone", "AlreadyExists")
    /\ UNCHANGED repo
  ELSE \E getOk \in BOOLEAN, default_branch \in DefaultBranches, resp \in responses :
    IF ~getOk THEN
      /\ last' = [Report("clone", "RemoteOperationFailed") EXCEPT
                    !.calls = <<Call("getRepository", {}, FALSE)>>]
      /\ UNCHANGED repo
    ELSE
      \E fetched \in {fetchFromRemote([Stores EXCEPT !.refs = saveBranch(refs, mainBranch)],
                                       resp)} :
          /\ exists' = TRUE
          /\ config' = setRemoteRepository(initConfig(Undefined), RemoteId)
          /\ index' = <<>>
          /\ commits' = fetched.commits
          /\ blobs' = fetched.blobs
          /\ refs' = fetched.refs
          /\ last_fetch' = fetched.last_fetch
          /\ head' = cloneHead(default_branch, fetchError(resp))
          /\ last' = [Report("clone", fetchError(resp)) EXCEPT
                        !.calls = <<Call("getRepository", {}, TRUE)>> \o fetchCalls(resp.ok),
                        !.since = sinceBound(last_fetch),
                        !.remote = [default_branch |-> default_branch,
                                    commits |-> resp.commits, objects |-> resp.objects],
                        !.branches = IF fetchError(resp) = "" THEN resp.branches ELSE {}]
          /\ skeleton' = createDirectoryStructure
          /\ UNCHANGED <<trees, pushed_commits, pushed_objects, worktree, running>>

FetchRepository == FetchRepositoryFrom(FetchResponses)

PullRepository == PullRepositoryFrom(FetchResponses)

CloneRepository == CloneRepositoryFrom(FetchResponses)

FetchWithWrites == FetchRepositoryFrom(FetchResponsesAndWrites)

PullWithWrites == PullRepositoryFrom(FetchResponsesAndWrites)

CloneWithWrites == CloneRepositoryFrom(FetchResponsesAndWrites)

(* ------------------------------- system -------------------------------- *)

Next ==
  \/ InitRepo
  \/ AddOneFile
  \/ CommitChanges
  \/ PushRepository
  \/ FetchRepository
  \/ PullRepository
  \/ CloneRepository

Spec == Init /\ [][Next]_vars

NextLocal ==
  \/ InitRepo
  \/ AddFiles
  \/ CommitChanges

SpecLocal == Init /\ [][NextLocal]_vars

NextStage ==
  \/ InitRepo
  \/ AddFilesLater
  \/ CommitChanges

SpecStage == Init /\ [][NextStage]_vars

NextFetch ==
  \/ InitRepo
  \/ AddOneFile
  \/ CommitChanges
  \/ FetchWithWrites
  \/ PullWithWrites
  \/ CloneWithWrites

SpecFetch == Init /\ [][NextFetch]_vars

\* a clone started while no init is at work
CloneWhenIdle == running = NoRun /\ CloneRepository

NextInit ==
  \/ InitBegin
  \/ InitMkdir
  \/ InitSaveConfig
  \/ InitSaveBranch
  \/ InitSetHead
  \/ InitSaveIndex
  \/ InitInterrupt
  \/ CloneWhenIdle

SpecInit == Init /\ [][NextInit]_vars

\* a repository as init leaves it, in any of the working directories
InitListFiles ==
  /\ exists = TRUE
  /\ config = initConfig(Undefined)
  /\ head = "main"
  /\ refs = saveBranch(<<>>, mainBranch)
  /\ index = <<>>
  /\ blobs = <<>>
  /\ trees = <<>>
  /\ commits = <<>>
  /\ pushed_commits = {}
  /\ pushed_objects = {}
  /\ last_fetch = 0
  /\ worktree \in WorkTrees
  /\ skeleton = createDirectoryStructure
  /\ running = NoRun
  /\ last = Report("init", "")

\* RepositoryManager.listFiles on the working directory
ListFiles ==
  /\ last' = [Report("listFiles", "") EXCEPT !.listed = listFiles(worktree)]
  /\ UNCHANGED repo

SpecListFiles == InitListFiles /\ [][ListFiles]_vars

\* a repository as init leaves it, in any of the working directories add is
\* given arguments in
InitArguments ==
  /\ exists = TRUE
  /\ config = initConfig(Undefined)
  /\ head = "main"
  /\ refs = saveBranch(<<>>, mainBranch)
  /\ index = <<>>
  /\ blobs = <<>>
  /\ trees = <<>>
  /\ commits = <<>>
  /\ pushed_commits = {}
  /\ pushed_objects = {}
  /\ last_fetch = 0
  /\ worktree \in ArgumentTrees
  /\ skeleton = createDirectoryStructure
  /\ running = NoRun
  /\ last = Report("init", "")

SpecArguments == InitArguments /\ [][AddWithArguments]_vars

\* a linked repository that holds the commits of one of the stores
InitSort ==
  /\ exists = TRUE
  /\ config = setRemoteRepository(initConfig(Undefined), RemoteId)
  /\ head = "main"
  /\ refs = saveBranch(<<>>, mainBranch)
  /\ index = <<>>
  /\ blobs = <<>>
  /\ trees = <<>>
  /\ \E store \in SortStores : commits = saveAll(saveCommit, <<>>, ReadDir(store))
  /\ pushed_commits \in {pushed \in SortPushed : pushed \subseteq DOMAIN commits}
  /\ pushed_objects = {}
  /\ last_fetch = 0
  /\ worktree = Paths
  /\ skeleton = createDirectoryStructure
  /\ running = NoRun
  /\ last = Report("init", "")

\* ErgoSumAPIClient.pushCommits on what getUnpushedCommits read, in the order
\* the directory gave it
PushCommits ==
  \E order \in Orders(getUnpushedCommits) :
    LET given == [i \in DOMAIN order |-> commits[order[i]]]
    IN  /\ last' = [Report("pushCommits", "") EXCEPT
                      !.given = given,
                      !.batch = sortCommitsByDependencies(given)]
        /\ UNCHANGED repo

SpecSort == InitSort /\ [][PushCommits]_vars

(* ------------------------------ properties ----------------------------- *)

IsStaged(entry) == entry.staged

\* the command of this step, as the report it leaves names it
Ran(op) == last'.op = op
Succeeded(op) == last'.op = op /\ last'.err = ""

\* C1: a commit on a repository whose index has no staged entry fails with
\* NothingStaged and writes no commit, no tree, moves no branch and leaves the
\* index as it was.
C1_NothingStaged ==
  [][(Ran("commit") /\ exists /\ SelectSeq(index, IsStaged) = <<>>)
       => /\ last'.err = "NothingStaged"
          /\ commits' = commits
          /\ trees' = trees
          /\ refs' = refs
          /\ head' = head
          /\ index' = index]_vars

C1_Witness ==
  /\ last.op = "commit"
  /\ last.err = "NothingStaged"
  /\ Len(index) > 0
  /\ DOMAIN commits # {}

\* C2: after every successful commit the branch HEAD names points at the new
\* commit, and the new commit's parent is what that branch pointed at before
\* (none when it was empty).
C2_CommitAdvancesHead ==
  [][Succeeded("commit")
       => /\ getHead \in DOMAIN refs'
          /\ refs'[getHead].commit_id = last'.commit_id
          /\ commits'[last'.commit_id].parent_id =
               (IF getHead \in DOMAIN refs /\ refs[getHead].commit_id # ""
                THEN refs[getHead].commit_id ELSE Undefined)]_vars

\* C3: the tree a successful commit writes has one entry per staged index
\* entry, with its path, mode and object id, in index order, and nothing for the
\* unstaged entries; the commit's tree_id is the id that tree is stored under.
C3_TreeOfStaged ==
  [][Succeeded("commit")
       => LET staged == SelectSeq(index, IsStaged)
              commit == commits'[last'.commit_id]
          IN  /\ commit.tree_id \in DOMAIN trees'
              /\ commit.files_changed = Len(staged)
              /\ LET entries == trees'[commit.tree_id]
                 IN  /\ Len(entries) = Len(staged)
                     /\ commit.tree_id = generateTreeId(entries)
                     /\ \A i \in DOMAIN staged :
                          /\ entries[i].name = staged[i].path
                          /\ entries[i].mode = staged[i].mode
                          /\ entries[i].object_id = staged[i].object_id]_vars

C3_Witness ==
  /\ last.op = "commit"
  /\ last.err = ""
  /\ Len(index) = 2
  /\ Len(trees[commits[last.commit_id].tree_id]) = 1

\* C4: a successful commit leaves the index with the same paths in the same
\* order, the same object id, mode and size, and every entry unstaged.
C4_IndexKeptUnstaged ==
  [][Succeeded("commit")
       => /\ Len(index') = Len(index)
          /\ \A i \in DOMAIN index :
               /\ index'[i].path = index[i].path
               /\ index'[i].object_id = index[i].object_id
               /\ index'[i].mode = index[i].mode
               /\ index'[i].size = index[i].size
               /\ index'[i].staged = FALSE]_vars

C4_Witness ==
  /\ last.op = "commit"
  /\ last.err = ""
  /\ Len(index) = 2
  /\ \A i \in DOMAIN index : ~index[i].staged

\* C5: init on a directory that is a repository already fails with
\* AlreadyExists and leaves config, HEAD, branches, index and objects as they were.
C5_InitTwice ==
  [][(Ran("init") /\ exists)
       => /\ last'.err = "AlreadyExists"
          /\ UNCHANGED repo]_vars

C5_Witness ==
  /\ last.op = "init"
  /\ last.err = "AlreadyExists"
  /\ DOMAIN commits # {}
  /\ Len(index) > 0

\* C6: right after a successful init the directory is a repository whose
\* config names main as default branch, with a branch main of empty commit_id,
\* HEAD main, an empty index and no commit, tree or object.
C6_FreshRepository ==
  (last.op = "init" /\ last.err = "")
    => /\ exists
       /\ config.default_branch = "main"
       /\ "main" \in DOMAIN refs
       /\ refs["main"].name = "main"
       /\ refs["main"].commit_id = ""
       /\ head = "main"
       /\ index = <<>>
       /\ DOMAIN commits = {}
       /\ DOMAIN trees = {}
       /\ DOMAIN blobs = {}

C6_Witness ==
  /\ last.op = "init"
  /\ last.err = ""
  /\ exists

\* the record the remote reported for the branch HEAD names, in the pull of this step
ReportedHead(b) == b \in last'.branches /\ b.name = getHead

C8_PullForceSets_AsStated ==
  [][\A b \in RemoteBranches :
       (Succeeded("pull") /\ ReportedHead(b) /\ b.commit_id # refs[getHead].commit_id)
         => /\ last'.updated = TRUE
            /\ refs'[getHead].commit_id = b.commit_id]_vars

\* C8, amended: a pull for which the remote reports the current branch with a
\* non-empty commit id other than the local one ends with the local branch at
\* the remote's commit id and returns updated=true, whatever the ancestry.
C8_PullForceSets ==
  [][\A b \in RemoteBranches :
       (Succeeded("pull") /\ ReportedHead(b) /\ b.commit_id # ""
          /\ b.commit_id # refs[getHead].commit_id)
         => /\ last'.updated = TRUE
            /\ refs'[getHead].commit_id = b.commit_id]_vars

\* the local branch was at local commit c1, which the remote's r2 does not descend from
C8_Witness ==
  /\ last.op = "pull"
  /\ last.updated
  /\ refs[getHead].commit_id = "r2"
  /\ "c1" \in DOMAIN commits
  /\ commits["c1"].parent_id = Undefined
  /\ \A id \in DOMAIN commits : commits[id].parent_id # "c1"

\* C9: a push that directly follows a successful push sends nothing to the
\* remote and reports zero commits and zero objects pushed.
C9_SecondPushSendsNothing ==
  [][(last.op = "push" /\ last.err = "" /\ Ran("push"))
       => /\ last'.err = ""
          /\ last'.calls = <<>>
          /\ last'.commits_pushed = 0
          /\ last'.objects_pushed = 0
          /\ pushed_commits' = pushed_commits
          /\ pushed_objects' = pushed_objects]_vars

C9_Witness ==
  /\ last.op = "push"
  /\ last.err = ""
  /\ last.calls = <<>>
  /\ pushed_commits # {}
  /\ pushed_objects # {}

\* C10: in one push, pushCommits is issued only after the pushObjects call for
\* all the unpushed objects has returned; when pushObjects fails, pushCommits is
\* not issued and pushed_commits gains no id.
C10_ObjectsBeforeCommits ==
  [][Ran("push")
       => LET calls == last'.calls
              unpushedObjects == DOMAIN blobs \ pushed_objects
          IN  /\ \A i \in DOMAIN calls :
                   calls[i].api = "pushCommits"
                     => /\ \A j \in DOMAIN calls :
                             calls[j].api = "pushObjects" => (j < i /\ calls[j].ok)
                        /\ unpushedObjects # {}
                             => \E j \in 1..(i - 1) :
                                  /\ calls[j].api = "pushObjects"
                                  /\ calls[j].ids = unpushedObjects
              /\ (\E j \in DOMAIN calls : calls[j].api = "pushObjects" /\ ~calls[j].ok)
                   => /\ \A i \in DOMAIN calls : calls[i].api # "pushCommits"
                      /\ pushed_commits' = pushed_commits]_vars

C10_Witness ==
  /\ last.op = "push"
  /\ \E j \in DOMAIN last.calls :
       last.calls[j].api = "pushObjects" /\ ~last.calls[j].ok
  /\ DOMAIN commits \ pushed_commits # {}

\* C11: when a push fails at pushCommits after pushObjects returned, the object
\* ids it sent are in pushed_objects and none of its commit ids is in
\* pushed_commits; the push retried right after sends none of those objects,
\* sends every unpushed commit, and once it has succeeded the push after it
\* sends nothing and reports zero counts.
C11_PushRetry ==
  [][/\ (failedAtCommits(last) /\ Ran("push"))
          => /\ idsSent(last, "pushObjects") \subseteq pushed_objects
             /\ idsSent(last, "pushCommits") \cap pushed_commits = {}
             /\ idsSent(last', "pushObjects") \cap idsSent(last, "pushObjects") = {}
             /\ idsSent(last', "pushCommits") = DOMAIN commits \ pushed_commits
             /\ idsSent(last, "pushCommits") \subseteq idsSent(last', "pushCommits")
     /\ (last.op = "push" /\ last.retry /\ last.err = "" /\ Ran("push"))
          => /\ last'.calls = <<>>
             /\ last'.commits_pushed = 0
             /\ last'.objects_pushed = 0]_vars

\* the retried push has succeeded: it sent the commits and no object, and the
\* objects of the failed push are tracked
C11_Witness ==
  /\ last.op = "push"
  /\ last.retry
  /\ last.err = ""
  /\ idsSent(last, "pushCommits") # {}
  /\ idsSent(last, "pushObjects") = {}
  /\ pushed_objects # {}
  /\ idsSent(last, "pushCommits") \subseteq pushed_commits

\* the report is of a command whose fetchFromRemote issued its calls
Fetched(report) ==
  \E i \in DOMAIN report.calls : report.calls[i].api = "fetchCommits"

\* C12: last_fetch is written only as the last step of fetchFromRemote: when
\* one of the three fetch calls fails, or a write of a returned commit, object
\* or branch fails, last_fetch keeps the value it had (none on a first fetch),
\* and the fetch that follows passes the same since bound.
C12_LastFetchLast ==
  [][/\ (Fetched(last') /\ last'.err # "") => last_fetch' = last_fetch
     /\ (last_fetch' # last_fetch) => (Fetched(last') /\ last'.err = "")
     /\ (Fetched(last) /\ last.err # "" /\ Fetched(last')) => last'.since = last.since]_vars

\* a fetch whose write of the branches threw after the commits and objects
\* were written, on a repository that never fetched
C12_Witness ==
  /\ last.op = "fetch"
  /\ last.err = "WriteFailed"
  /\ last_fetch = 0
  /\ last.since = Undefined
  /\ "r2" \in DOMAIN commits
  /\ hashContent("z") \in DOMAIN blobs

\* C13: after a successful fetch, the local ref of every branch the remote
\* reported is the remote's record, whatever the local branch pointed at, and
\* every other local branch is as it was.
C13_FetchOverwritesBranches ==
  [][Succeeded("fetch")
       => /\ \A b \in last'.branches :
               /\ b.name \in DOMAIN refs'
               /\ refs'[b.name] = b
          /\ \A name \in DOMAIN refs :
               (\A b \in last'.branches : b.name # name)
                 => (name \in DOMAIN refs' /\ refs'[name] = refs[name])
          /\ DOMAIN refs' = DOMAIN refs \cup {b.name : b \in last'.branches}]_vars

\* main pointed at the local commit c1, which was never pushed; the fetch put
\* the remote's record in its place and left no branch at c1
C13_Witness ==
  /\ last.op = "fetch"
  /\ last.err = ""
  /\ head = "main"
  /\ "c1" \in DOMAIN commits
  /\ "c1" \notin pushed_commits
  /\ refs["main"].id = "remote"
  /\ refs["main"].commit_id = "r2"
  /\ \A name \in DOMAIN refs : refs[name].commit_id # "c1"

\* C14: fetch and pull on a repository whose config records no remote
\* repository fail with NotLinked, issue no remote call and leave commits,
\* objects, branches, HEAD, index and last_fetch as they were.
C14_NotLinked ==
  [][((Ran("fetch") \/ Ran("pull")) /\ exists /\ config.remote_url # RemoteUrl)
       => /\ last'.err = "NotLinked"
          /\ last'.calls = <<>>
          /\ UNCHANGED repo]_vars

\* a pull refused on an unlinked repository that holds a commit
C14_Witness ==
  /\ last.op = "pull"
  /\ last.err = "NotLinked"
  /\ config.remote_url = Undefined
  /\ DOMAIN commits # {}
  /\ last_fetch = 0

\* C15: a clone into a directory that is no repository, when every remote
\* call succeeds, leaves a repository linked to the remote id that stores every
\* commit, object and branch the remote returned, with HEAD at the remote's
\* default_branch when it reports one; a clone into a repository fails and
\* changes nothing.
C15_Clone ==
  [][Ran("clone")
       => IF exists
          THEN last'.err = "AlreadyExists" /\ UNCHANGED repo
          ELSE last'.err = ""
                 => /\ exists'
                    /\ config'.remote_url = "ergosum://repository/" \o RemoteId
                    /\ \A c \in last'.remote.commits :
                         c.id \in DOMAIN commits' /\ commits'[c.id] = c
                    /\ \A o \in last'.remote.objects :
                         /\ o.id \in DOMAIN blobs'
                         /\ blobs'[o.id].content = o.content
                    /\ \A b \in last'.branches :
                         b.name \in DOMAIN refs' /\ refs'[b.name] = b
                    /\ last'.remote.default_branch # Undefined
                         => head' = last'.remote.default_branch]_vars

\* a clone of a remote that returned two commits, an object and the branch its
\* default_branch names
C15_Witness ==
  /\ last.op = "clone"
  /\ last.err = ""
  /\ last.remote.default_branch = "dev"
  /\ head = "dev"
  /\ "dev" \in DOMAIN refs
  /\ DOMAIN commits = {"r1", "r2"}
  /\ DOMAIN blobs # {}

\* the directories above a file, as relative paths
Ancestors(f) ==
  {SubSeq(f, 1, i - 1) : i \in {k \in 1..Len(f) : SubSeq(f, k, k) = "/"}}

\* a configured pattern matches the path: one with a * as the regular
\* expression it becomes with .* for each *, tested anywhere in the path, any
\* other by containment
Matches(pattern, path) ==
  IF includes(pattern, "*")
  THEN regexTest(replaceStars(pattern), path)
  ELSE includes(path, pattern)

Ignored(path) ==
  \E n \in DOMAIN config.ignore_patterns : Matches(config.ignore_patterns[n], path)

\* C16: listFiles returns exactly the files of which neither the relative path
\* nor the relative path of a directory above matches an ignore pattern of the
\* repository's config; of README.md, script.js, .env and
\* node_modules/package.js it returns README.md and script.js.
C16_ListFiles ==
  last.op = "listFiles"
    => /\ {last.listed[i] : i \in DOMAIN last.listed}
            = {f \in worktree : \A q \in {f} \cup Ancestors(f) : ~Ignored(q)}
       /\ Len(last.listed) = Cardinality({last.listed[i] : i \in DOMAIN last.listed})
       /\ worktree = {"README.md", "script.js", ".env", "node_modules/package.js"}
            => {last.listed[i] : i \in DOMAIN last.listed} = {"README.md", "script.js"}

\* the listing of the four files
C16_Witness ==
  /\ last.op = "listFiles"
  /\ worktree = {"README.md", "script.js", ".env", "node_modules/package.js"}
  /\ Len(last.listed) = 2

\* C17: in every reachable state every stored commit that has a parent_id has
\* the commit of that id in the store (a commit has one parent_id at most).
C17_ParentsPresent ==
  \A id \in DOMAIN commits :
    commits[id].parent_id # Undefined => commits[id].parent_id \in DOMAIN commits

C19_SortedBatch ==
  last.op = "pushCommits"
    => LET batch == last.batch
       IN  /\ Len(batch) = Cardinality(DOMAIN commits \ pushed_commits)
           /\ {batch[i].id : i \in DOMAIN batch} = DOMAIN commits \ pushed_commits
           /\ \A i \in DOMAIN batch : batch[i] = commits[batch[i].id]
           /\ \A i, j \in DOMAIN batch :
                batch[i].parent_id = batch[j].id => j < i

\* the chain of three, given child first, sent parent first
C19_Witness ==
  /\ last.op = "pushCommits"
  /\ Len(last.given) = 3
  /\ last.given[1].id = "k3"
  /\ last.given[2].id = "k2"
  /\ last.given[3].id = "k1"
  /\ Len(last.batch) = 3
  /\ last.batch[1].id = "k1"
  /\ last.batch[2].id = "k2"
  /\ last.batch[3].id = "k3"

\* C20: the commits (objects) a push sends are exactly the stored commits
\* (objects) whose id pushed_commits (pushed_objects) does not hold, whoever
\* stored them: what a fetch stored and no push marked is sent by the next push.
C20_UnpushedDelta ==
  [][Ran("push")
       => LET unpushedCommits == DOMAIN commits \ pushed_commits
              unpushedObjects == DOMAIN blobs \ pushed_objects
              calls == last'.calls
          IN  /\ \A i \in DOMAIN calls :
                   /\ calls[i].api = "pushCommits" => calls[i].ids = unpushedCommits
                   /\ calls[i].api = "pushObjects" => calls[i].ids = unpushedObjects
              /\ last'.err = ""
                   => /\ idsSent(last', "pushCommits") = unpushedCommits
                      /\ idsSent(last', "pushObjects") = unpushedObjects
                      /\ last'.commits_pushed = Cardinality(unpushedCommits)
                      /\ last'.objects_pushed = Cardinality(unpushedObjects)]_vars

\* a push that sent a commit and an object a fetch had stored, with a local commit
C20_Witness ==
  /\ last.op = "push"
  /\ last.err = ""
  /\ {"r2", "c1"} \subseteq idsSent(last, "pushCommits")
  /\ hashContent("z") \in idsSent(last, "pushObjects")

\* the paths of an index, in its order
PathsOf(idx) == [i \in DOMAIN idx |-> idx[i].path]

\* the paths of a sequence that are not in seen, each once, in the order of
\* their first occurrence
RECURSIVE Fresh(_, _)
Fresh(paths, seen) ==
  IF paths = <<>> THEN <<>>
  ELSE IF Head(paths) \in seen THEN Fresh(Tail(paths), seen)
  ELSE <<Head(paths)>> \o Fresh(Tail(paths), seen \cup {Head(paths)})

\* C21: the index never holds two entries of one path; an add keeps every
\* entry at its position, replaces in place the entry of a path it stages
\* again, leaves the entries of the other paths as they were, and appends one
\* entry per new path.
C21_OneEntryPerPath ==
  [][/\ \A i, j \in DOMAIN index' : index'[i].path = index'[j].path => i = j
     /\ Succeeded("add")
          => /\ PathsOf(index') =
                  PathsOf(index) \o Fresh(last'.added, {index[i].path : i \in DOMAIN index})
             /\ \A i \in DOMAIN index :
                  IF \E k \in DOMAIN last'.added : last'.added[k] = index[i].path
                  THEN index'[i].staged
                  ELSE index'[i] = index[i]]_vars

\* a.md staged again after the commit of a.md and b.md: its entry is still
\* the first, staged again with the new content, and b.md's is as it was
C21_Witness ==
  /\ last.op = "add"
  /\ last.added = <<"a.md">>
  /\ Len(index) = 2
  /\ index[1].path = "a.md"
  /\ index[1].staged
  /\ index[1].object_id = hashContent("yy")
  /\ index[2].path = "b.md"
  /\ ~index[2].staged
  /\ DOMAIN commits # {}

\* the add of this step stages again, unchanged, files that are staged: every
\* file it read has a staged entry whose object holds the content read now
StagedAgain ==
  /\ Succeeded("add")
  /\ last'.added # <<>>
  /\ \A k \in DOMAIN last'.files :
       last'.contents[k] # Unreadable
         => \E i \in DOMAIN index :
              /\ index[i].path = last'.files[k]
              /\ index[i].staged
              /\ index[i].object_id \in DOMAIN blobs
              /\ blobs[index[i].object_id].content = last'.contents[k]

\* the index after the step has the paths, order, object ids, modes, sizes and
\* staged flags it had
IndexKept ==
  /\ Len(index') = Len(index)
  /\ \A i \in DOMAIN index :
       /\ index'[i].path = index[i].path
       /\ index'[i].object_id = index[i].object_id
       /\ index'[i].mode = index[i].mode
       /\ index'[i].size = index[i].size
       /\ index'[i].staged = index[i].staged

EntryOf(idx, p) == {idx[i] : i \in {j \in DOMAIN idx : idx[j].path = p}}

\* C23: an add over a batch in which some files cannot be read succeeds: every
\* file it could read has its object stored and a staged entry for it, every
\* file it could not read has the entry it had, or none as before, and is not
\* among the files the add reports as staged.
C23_BestEffortPerFile ==
  [][(Ran("add") /\ exists
        /\ \E k \in DOMAIN last'.contents : last'.contents[k] = Unreadable)
       => /\ last'.err = ""
          /\ \A k \in DOMAIN last'.files :
               LET p == last'.files[k]
               IN  IF last'.contents[k] # Unreadable
                   THEN /\ \E i \in DOMAIN index' :
                             /\ index'[i].path = p
                             /\ index'[i].staged
                             /\ index'[i].object_id \in DOMAIN blobs'
                             /\ blobs'[index'[i].object_id].content = last'.contents[k]
                        /\ \E n \in DOMAIN last'.added : last'.added[n] = p
                   ELSE /\ EntryOf(index', p) = EntryOf(index, p)
                        /\ \A i \in DOMAIN index : index[i].path = p => index'[i] = index[i]
                        /\ \A n \in DOMAIN last'.added : last'.added[n] # p
          /\ Len(last'.added) =
               Cardinality({k \in DOMAIN last'.files : last'.contents[k] # Unreadable})]_vars

\* a.md, committed before, could not be read and b.md could: a.md's entry is
\* the unstaged one it had, b.md is staged and is the one file reported
C23_Witness ==
  /\ last.op = "add"
  /\ last.err = ""
  /\ last.files = <<"a.md", "b.md">>
  /\ last.contents = <<Unreadable, "x">>
  /\ last.added = <<"b.md">>
  /\ Len(index) = 2
  /\ index[1].path = "a.md"
  /\ ~index[1].staged
  /\ index[2].path = "b.md"
  /\ index[2].staged

\* an init has begun and has not reported: it is at work, or it ended midway
InitUnfinished == last.op = "init" /\ last.err = "Unfinished"

\* C24: while an init has not written the complete skeleton, the config, the
\* default branch, HEAD and the index, isRepository is false, so that an init
\* that ended midway can be run again without AlreadyExists.
C24_NoPrematureRepository == InitUnfinished => ~isRepository

\* C25: in every reachable state every branch whose commit_id is not empty
\* points at a commit of the local commit store.
C25_BranchesPointAtCommits ==
  \A name \in DOMAIN refs :
    refs[name].commit_id # "" => refs[name].commit_id \in DOMAIN commits

\* C26: a pull that returns updated=false leaves the branch HEAD names at the
\* commit_id it had, also when the remote does not report that branch or
\* reports it with an empty commit_id.
C26_NotUpdatedKeepsBranch ==
  [][(Succeeded("pull") /\ ~last'.updated)
       => /\ getHead \in DOMAIN refs'
          /\ refs'[getHead].commit_id = refs[getHead].commit_id]_vars

\* C27: in every reachable state of a repository HEAD names a branch that
\* refs/heads holds, so that a commit has a branch to advance.
C27_HeadNamesBranch == exists => ~getBranchAbsent(getHead)

\* C28: in every reachable state every stored commit has its tree in the tree
\* store, whether the commit was made here or stored by fetch, pull or clone.
C28_TreesPresent ==
  \A id \in DOMAIN commits : commits[id].tree_id \in DOMAIN trees

\* C29: no path that matches an ignore pattern gets an index entry through
\* add, whichever form the arguments have: --all, ., a pattern with a *, or
\* the name of a file.
C29_IgnoredNeverStaged == \A i \in DOMAIN index : ~Ignored(index[i].path)

\* the report is of a clone whose getRepository call failed
GetRepositoryFailed(report) ==
  /\ report.op = "clone"
  /\ \E i \in DOMAIN report.calls :
       report.calls[i].api = "getRepository" /\ ~report.calls[i].ok

\* the report is of a clone that failed in fetchFromRemote
FetchStepFailed(report) ==
  /\ report.op = "clone"
  /\ report.err # ""
  /\ Fetched(report)

\* the directory is a repository as initRepository leaves it, linked to the
\* remote id
InitializedAndLinked ==
  /\ exists'
  /\ config'.remote_url = "ergosum://repository/" \o RemoteId
  /\ config'.default_branch = "main"
  /\ head' = "main"
  /\ "main" \in DOMAIN refs'
  /\ index' = <<>>

\* C30 as stated: a clone that fails at getRepository leaves the directory no
\* repository; one that fails later, in the fetch step, leaves it an
\* initialized repository linked to the remote id with no commit; the clone
\* run again on it fails with AlreadyExists.
C30_CloneFailure_AsStated ==
  [][/\ (~exists /\ GetRepositoryFailed(last')) => (~exists' /\ UNCHANGED repo)
     /\ (~exists /\ FetchStepFailed(last'))
          => (InitializedAndLinked /\ DOMAIN commits' = {})
     /\ (FetchStepFailed(last) /\ Ran("clone"))
          => (last'.err = "AlreadyExists" /\ UNCHANGED repo)]_vars

\* C30, amended: a clone that fails at getRepository leaves the directory no
\* repository; one that fails in the fetch step leaves it an initialized
\* repository linked to the remote id, with no commit when a call of the
\* remote failed and with the commits, objects and branches written before the
\* failing write when a local write failed; the clone run again on it fails
\* with AlreadyExists.
C30_CloneFailure ==
  [][/\ (~exists /\ GetRepositoryFailed(last')) => (~exists' /\ UNCHANGED repo)
     /\ (~exists /\ FetchStepFailed(last'))
          => /\ InitializedAndLinked
             /\ last_fetch' = last_fetch
             /\ last'.err = "RemoteOperationFailed"
                  => (DOMAIN commits' = {} /\ DOMAIN blobs' = {} /\ DOMAIN refs' = {"main"})
             /\ last'.err = "WriteFailed"
                  => DOMAIN commits' \subseteq {c.id : c \in last'.remote.commits}
     /\ (FetchStepFailed(last) /\ Ran("clone"))
          => (last'.err = "AlreadyExists" /\ UNCHANGED repo)]_vars

\* the directory a clone has left when a call of its fetch step failed
C30_Witness ==
  /\ FetchStepFailed(last)
  /\ last.err = "RemoteOperationFailed"
  /\ exists
  /\ config.remote_url = RemoteUrl
  /\ head = "main"
  /\ DOMAIN commits = {}
  /\ DOMAIN refs = {"main"}
  /\ last_fetch = 0

====
